---- MODULE Spec2Model ----
(***************************************************************************)
(* Model of the delivery-analytics ETL pipeline (src/src/etl_pipeline.py):  *)
(* DeliveryETL.extract / transform / validate / load_to_csv /               *)
(* load_to_database / run, and the call chain of src/tests/test_etl.py.     *)
(*                                                                          *)
(* Text is a sequence of one-character strings, so that the substring       *)
(* tests of the code ("id" in c.lower(), str.contains) are computed.        *)
(* A cell is a record [k, n, s]:                                            *)
(*   k = "nan"  a missing value (NaN / None)                                *)
(*   k = "num"  a number; n counts halves (n = 2 * value), so that the      *)
(*              median of an even number of whole values is exact           *)
(*   k = "str"  a text, s                                                   *)
(*   k = "ts"   a timestamp; n = year * 10000 + month * 100 + day           *)
(*   k = "nat"  the null timestamp NaT (missing)                            *)
(* A DataFrame is a record [cols, dtypes, rows]: column names, the dtype of *)
(* each column, and the rows in order, each a sequence of cells.            *)
(***************************************************************************)
EXTENDS Integers, Sequences, FiniteSets, TLC

VARIABLES
    entry,        \* "run": DeliveryETL.run(load_db); "test": test_etl_creates_output
    load_db,      \* the argument of run()
    sqlalchemy,   \* SQLALCHEMY_AVAILABLE
    rawFile,      \* RAW_DATASET: None when the file does not exist, else its table
    outFile,      \* PROCESSED_DATASET: None when the file does not exist, else its content
    raw_df,       \* self.raw_df
    clean_df,     \* self.clean_df
    df,           \* transform()'s local df after the drop, after the fill and after step 2.4
    again,        \* the result of transform() applied to its own output
    conn,         \* the psycopg2 connection: "none", "open" or "closed"
    db,           \* the deliveries table of the database
    pc,           \* the position of the caller
    error         \* the exception that ended the call chain, or NoError

vars == <<entry, load_db, sqlalchemy, rawFile, outFile, raw_df, clean_df, df, again,
          conn, db, pc, error>>

\* Bounds of the model.
MaxRows == 3
MaxRunRows == 2

None == [none |-> TRUE]
NoError == "none"

(***************************************************************************)
(* Texts.                                                                  *)
(***************************************************************************)
Order_ID == <<"O","r","d","e","r","_","I","D">>
Agent_ID == <<"A","g","e","n","t","_","I","D">>
Order_Date == <<"O","r","d","e","r","_","D","a","t","e">>
paid_date == <<"p","a","i","d","_","d","a","t","e">>
Status == <<"S","t","a","t","u","s">>
Agent_Age == <<"A","g","e","n","t","_","A","g","e">>
order_year == <<"o","r","d","e","r","_","y","e","a","r">>
order_month == <<"o","r","d","e","r","_","m","o","n","t","h">>
order_day_of_week == <<"o","r","d","e","r","_","d","a","y","_","o","f","_","w","e","e","k">>
order_day_name == <<"o","r","d","e","r","_","d","a","y","_","n","a","m","e">>
is_delivered == <<"i","s","_","d","e","l","i","v","e","r","e","d">>
is_late == <<"i","s","_","l","a","t","e">>
is_on_time == <<"i","s","_","o","n","_","t","i","m","e">>
kw_id == <<"i","d">>
kw_date == <<"d","a","t","e">>
kw_status == <<"s","t","a","t","u","s">>
kw_delivered == <<"d","e","l","i","v","e","r","e","d">>
kw_completed == <<"c","o","m","p","l","e","t","e","d">>
kw_success == <<"s","u","c","c","e","s","s">>
kw_delivered_on_time == <<"d","e","l","i","v","e","r","e","d"," ","o","n"," ","t","i","m","e">>
kw_late == <<"l","a","t","e">>
kw_delay == <<"d","e","l","a","y">>
Unknown == <<"U","n","k","n","o","w","n">>
txt_nan == <<"n","a","n">>
txt_NaT == <<"N","a","T">>
A1 == <<"A","1">>
A2 == <<"A","2">>
DeliveredOnTime == <<"D","e","l","i","v","e","r","e","d"," ","O","n"," ","T","i","m","e">>
DeliveredLate == <<"D","e","l","i","v","e","r","e","d"," ","L","a","t","e">>
Delayed == <<"D","e","l","a","y","e","d">>
d20240315 == <<"2","0","2","4","-","0","3","-","1","5">>
d20231231 == <<"2","0","2","3","-","1","2","-","3","1">>
soon == <<"s","o","o","n">>
DayNames == << <<"M","o","n","d","a","y">>, <<"T","u","e","s","d","a","y">>,
               <<"W","e","d","n","e","s","d","a","y">>, <<"T","h","u","r","s","d","a","y">>,
               <<"F","r","i","d","a","y">>, <<"S","a","t","u","r","d","a","y">>,
               <<"S","u","n","d","a","y">> >>

UpperCase == <<"A","B","C","D","E","F","G","H","I","J","K","L","M","N","O","P","Q","R","S","T","U","V","W","X","Y","Z">>
LowerCase == <<"a","b","c","d","e","f","g","h","i","j","k","l","m","n","o","p","q","r","s","t","u","v","w","x","y","z">>
DigitChars == <<"0","1","2","3","4","5","6","7","8","9">>

\* str.lower()
Lower(s) ==
    [i \in 1..Len(s) |->
        IF \E u \in 1..Len(UpperCase) : UpperCase[u] = s[i]
        THEN LowerCase[CHOOSE u \in 1..Len(UpperCase) : UpperCase[u] = s[i]]
        ELSE s[i]]

\* sub in s
Contains(s, sub) ==
    \E i \in 0..(Len(s) - Len(sub)) : \A j \in 1..Len(sub) : s[i + j] = sub[j]

IsDigit(c) == \E d \in 1..Len(DigitChars) : DigitChars[d] = c
DigitVal(c) == (CHOOSE d \in 1..Len(DigitChars) : DigitChars[d] = c) - 1

RECURSIVE DigitsOf(_)
DigitsOf(n) == IF n < 10 THEN <<DigitChars[n + 1]>>
               ELSE DigitsOf(n \div 10) \o <<DigitChars[(n % 10) + 1]>>

Pad2(n) == <<DigitChars[(n \div 10) + 1], DigitChars[(n % 10) + 1]>>

(***************************************************************************)
(* Cells.                                                                  *)
(***************************************************************************)
NaN == [k |-> "nan", n |-> 0, s |-> <<>>]
NaT == [k |-> "nat", n |-> 0, s |-> <<>>]
Num(h) == [k |-> "num", n |-> h, s |-> <<>>]
Whole(v) == Num(2 * v)
Str(t) == [k |-> "str", n |-> 0, s |-> t]
Ts(y, m, d) == [k |-> "ts", n |-> y * 10000 + m * 100 + d, s |-> <<>>]

\* pd.isnull
IsNull(c) == c.k \in {"nan", "nat"}

Year(c) == c.n \div 10000
Month(c) == (c.n \div 100) % 100
Day(c) == c.n % 100

IsLeap(y) == (y % 4 = 0 /\ y % 100 # 0) \/ y % 400 = 0
DaysInMonth(y, m) ==
    IF m = 2 THEN (IF IsLeap(y) THEN 29 ELSE 28)
    ELSE IF m \in {4, 6, 9, 11} THEN 30 ELSE 31

\* Series.dt.dayofweek: Monday = 0 ... Sunday = 6
MonthKey == <<0, 3, 2, 5, 0, 3, 5, 1, 4, 6, 2, 4>>
DayOfWeek(c) ==
    LET y == IF Month(c) < 3 THEN Year(c) - 1 ELSE Year(c)
        sun0 == (y + y \div 4 - y \div 100 + y \div 400 + MonthKey[Month(c)] + Day(c)) % 7
    IN  (sun0 + 6) % 7

\* pd.to_datetime(..., errors="coerce") of one value: a calendar date YYYY-MM-DD
\* parses, any other text becomes NaT; an integer counts nanoseconds since the
\* epoch, which for the numbers of a table is a time on 1970-01-01.
ParseDate(t) ==
    IF /\ Len(t) = 10
       /\ t[5] = "-" /\ t[8] = "-"
       /\ \A i \in {1, 2, 3, 4, 6, 7, 9, 10} : IsDigit(t[i])
    THEN LET y == DigitVal(t[1]) * 1000 + DigitVal(t[2]) * 100 + DigitVal(t[3]) * 10 + DigitVal(t[4])
             m == DigitVal(t[6]) * 10 + DigitVal(t[7])
             d == DigitVal(t[9]) * 10 + DigitVal(t[10])
         IN  IF m \in 1..12 /\ y >= 1 /\ d >= 1 /\ d <= DaysInMonth(y, m)
             THEN Ts(y, m, d) ELSE NaT
    ELSE NaT

ToDatetimeCell(c) ==
    CASE c.k = "str" -> ParseDate(c.s)
      [] c.k = "ts" -> c
      [] c.k = "num" -> Ts(1970, 1, 1)
      [] OTHER -> NaT

\* Series.astype(str) of one value of a column of dtype t
AsStr(c, t) ==
    CASE c.k = "str" -> c.s
      [] c.k = "nan" -> txt_nan
      [] c.k = "nat" -> txt_NaT
      [] c.k = "ts" -> DigitsOf(Year(c)) \o <<"-">> \o Pad2(Month(c)) \o <<"-">> \o Pad2(Day(c))
      [] c.k = "num" ->
            IF t = "int64" THEN DigitsOf(c.n \div 2)
            ELSE DigitsOf(c.n \div 2) \o <<".">> \o (IF c.n % 2 = 0 THEN <<"0">> ELSE <<"5">>)

(***************************************************************************)
(* DataFrames.                                                             *)
(***************************************************************************)
NRows(d) == Len(d.rows)
NCols(d) == Len(d.cols)
HasCol(d, name) == \E i \in 1..NCols(d) : d.cols[i] = name
ColIndex(d, name) == CHOOSE i \in 1..NCols(d) : d.cols[i] = name
Column(d, i) == [r \in 1..NRows(d) |-> d.rows[r][i]]

IsNumericDtype(t) == t \in {"int64", "float64"}

\* The dtype pd.read_csv infers for a column
InferDtype(cells) ==
    IF Len(cells) = 0 THEN "object"
    ELSE IF \A i \in 1..Len(cells) : cells[i].k \in {"num", "nan"}
         THEN (IF \E i \in 1..Len(cells) : cells[i].k = "nan" THEN "float64" ELSE "int64")
         ELSE "object"

\* pd.read_csv of a file holding a header and rows
ReadCsv(file) ==
    [cols |-> file.header,
     dtypes |-> [i \in 1..Len(file.header) |->
                    InferDtype([r \in 1..Len(file.lines) |-> file.lines[r][i]])],
     rows |-> file.lines]

\* df[name] = vals: an existing column is replaced in place, a new one is appended
SetColumn(d, name, t, vals) ==
    IF HasCol(d, name)
    THEN LET i == ColIndex(d, name)
         IN  [cols |-> d.cols,
              dtypes |-> [d.dtypes EXCEPT ![i] = t],
              rows |-> [r \in 1..NRows(d) |-> [d.rows[r] EXCEPT ![i] = vals[r]]]]
    ELSE [cols |-> Append(d.cols, name),
          dtypes |-> Append(d.dtypes, t),
          rows |-> [r \in 1..NRows(d) |-> Append(d.rows[r], vals[r])]]

\* [c for c in df.columns if kw in c.lower()]
ColsLike(d, kw) == SelectSeq(d.cols, LAMBDA c : Contains(Lower(c), kw))
IdCols(d) == ColsLike(d, kw_id)
DateCols(d) == ColsLike(d, kw_date)
StatusCols(d) == ColsLike(d, kw_status)

\* df.isnull().sum().sum()
TotalMissing(d) ==
    Cardinality({<<r, i>> \in (1..NRows(d)) \X (1..NCols(d)) : IsNull(d.rows[r][i])})

\* Series.median(): over the non-missing values; NaN when there is none
\* (the mean of the two middle values is exact for whole values, n being in halves)
Median(cells) ==
    LET nn == SelectSeq(cells, LAMBDA c : ~IsNull(c))
        v == SortSeq([i \in 1..Len(nn) |-> nn[i].n], LAMBDA a, b : a < b)
        n == Len(v)
    IN  IF n = 0 THEN NaN
        ELSE IF n % 2 = 1 THEN Num(v[(n + 1) \div 2])
        ELSE Num((v[n \div 2] + v[n \div 2 + 1]) \div 2)

(***************************************************************************)
(* transform(), step by step.                                              *)
(***************************************************************************)
\* 2.1: critical_cols = id_cols[:1]; df.dropna(subset=critical_cols)
CriticalCols(d) == IF Len(IdCols(d)) > 0 THEN <<IdCols(d)[1]>> ELSE <<>>

DropNa(d, subset) ==
    [d EXCEPT !.rows = SelectSeq(d.rows,
        LAMBDA row : \A j \in 1..Len(subset) : ~IsNull(row[ColIndex(d, subset[j])]))]

StepDrop(d) == IF Len(CriticalCols(d)) > 0 THEN DropNa(d, CriticalCols(d)) ELSE d

\* Series.fillna(v): a missing v (the median of a column with no value) fills nothing
FillCell(c, v) == IF IsNull(c) /\ ~IsNull(v) THEN v ELSE c

\* Fill remaining missing values: the median for a numeric column, "Unknown" otherwise.
\* Filling a text into a datetime column that has a NaT turns the column into objects.
FillColumn(d, i) ==
    IF IsNumericDtype(d.dtypes[i])
    THEN LET median == Median(Column(d, i))
         IN  [t |-> d.dtypes[i],
              vals |-> [r \in 1..NRows(d) |-> FillCell(d.rows[r][i], median)]]
    ELSE [t |-> IF \E r \in 1..NRows(d) : IsNull(d.rows[r][i]) THEN "object" ELSE d.dtypes[i],
          vals |-> [r \in 1..NRows(d) |-> FillCell(d.rows[r][i], Str(Unknown))]]

StepFill(d) ==
    LET filled == [i \in 1..NCols(d) |-> FillColumn(d, i)]
    IN  [cols |-> d.cols,
         dtypes |-> [i \in 1..NCols(d) |-> filled[i].t],
         rows |-> [r \in 1..NRows(d) |-> [i \in 1..NCols(d) |-> filled[i].vals[r]]]]

\* 2.2: for col in date_cols: df[col] = pd.to_datetime(df[col], errors="coerce")
StepDates(d, date_cols) ==
    [cols |-> d.cols,
     dtypes |-> [i \in 1..NCols(d) |->
                    IF \E j \in 1..Len(date_cols) : date_cols[j] = d.cols[i]
                    THEN "datetime64" ELSE d.dtypes[i]],
     rows |-> [r \in 1..NRows(d) |-> [i \in 1..NCols(d) |->
                    IF \E j \in 1..Len(date_cols) : date_cols[j] = d.cols[i]
                    THEN ToDatetimeCell(d.rows[r][i]) ELSE d.rows[r][i]]]]

\* .dt.year, .dt.month, .dt.dayofweek and .dt.day_name() of one value
DtYear(c) == IF c.k = "ts" THEN Whole(Year(c)) ELSE NaN
DtMonth(c) == IF c.k = "ts" THEN Whole(Month(c)) ELSE NaN
DtDayOfWeek(c) == IF c.k = "ts" THEN Whole(DayOfWeek(c)) ELSE NaN
DtDayName(c) == IF c.k = "ts" THEN Str(DayNames[DayOfWeek(c) + 1]) ELSE NaN

\* The dtype of a .dt field: integers, or floats when a NaT gives a NaN
DtDtype(cells) == IF \E i \in 1..Len(cells) : cells[i].k # "ts" THEN "float64" ELSE "int64"

\* 2.3: time features from date_cols[0]
StepFeatures(d, date_cols) ==
    IF Len(date_cols) > 0
    THEN LET main == Column(d, ColIndex(d, date_cols[1]))
             n == Len(main)
             d1 == SetColumn(d, order_year, DtDtype(main), [r \in 1..n |-> DtYear(main[r])])
             d2 == SetColumn(d1, order_month, DtDtype(main), [r \in 1..n |-> DtMonth(main[r])])
             d3 == SetColumn(d2, order_day_of_week, DtDtype(main), [r \in 1..n |-> DtDayOfWeek(main[r])])
         IN  SetColumn(d3, order_day_name, "object", [r \in 1..n |-> DtDayName(main[r])])
    ELSE d

\* status_lower.str.contains("delivered|completed|success|delivered on time", na=False)
MatchesDelivered(t) ==
    \/ Contains(t, kw_delivered) \/ Contains(t, kw_completed)
    \/ Contains(t, kw_success) \/ Contains(t, kw_delivered_on_time)
\* status_lower.str.contains("late|delay", na=False)
MatchesLate(t) == Contains(t, kw_late) \/ Contains(t, kw_delay)

Flag(b) == IF b THEN Whole(1) ELSE Whole(0)
IsDelivered(t) == Flag(MatchesDelivered(t))
IsLate(t) == Flag(MatchesLate(t))
\* A variant of IsOnTime that forgets the late flag
IsOnTimeIgnoringLate(delivered, late) == Flag(delivered = Whole(1))
\* ((df["is_delivered"] == 1) & (df["is_late"] == 0)).astype(int)
IsOnTime(delivered, late) == Flag(delivered = Whole(1) /\ late = Whole(0))

\* 2.4: binary flags from status_cols[0]
StepFlags(d, status_cols) ==
    IF Len(status_cols) > 0
    THEN LET i == ColIndex(d, status_cols[1])
             n == NRows(d)
             status_lower == [r \in 1..n |-> Lower(AsStr(d.rows[r][i], d.dtypes[i]))]
             d1 == SetColumn(d, is_delivered, "int64", [r \in 1..n |-> IsDelivered(status_lower[r])])
             d2 == SetColumn(d1, is_late, "int64", [r \in 1..n |-> IsLate(status_lower[r])])
         IN  SetColumn(d2, is_on_time, "int64",
                 [r \in 1..n |-> IsOnTime(d2.rows[r][ColIndex(d2, is_delivered)],
                                          d2.rows[r][ColIndex(d2, is_late)])])
    ELSE d

\* df.duplicated(): a row equal in every column to an earlier row
Duplicated(rows, r) == \E q \in 1..(r - 1) : rows[q] = rows[r]

\* df.drop_duplicates(): keep="first"
RECURSIVE KeepFirst(_, _)
KeepFirst(rows, r) ==
    IF r > Len(rows) THEN <<>>
    ELSE (IF Duplicated(rows, r) THEN <<>> ELSE <<rows[r]>>) \o KeepFirst(rows, r + 1)

\* A variant of DropDuplicates that keeps the last row of each group of equal rows
RECURSIVE KeepLast(_, _)
KeepLast(rows, r) ==
    IF r > Len(rows) THEN <<>>
    ELSE (IF \E q \in (r + 1)..Len(rows) : rows[q] = rows[r] THEN <<>> ELSE <<rows[r]>>)
         \o KeepLast(rows, r + 1)
DropDuplicatesKeepLast(d) == [d EXCEPT !.rows = KeepLast(d.rows, 1)]

DropDuplicates(d) == [d EXCEPT !.rows = KeepFirst(d.rows, 1)]

\* 2.5: remove duplicates
StepDedup(d) ==
    IF Cardinality({r \in 1..NRows(d) : Duplicated(d.rows, r)}) > 0
    THEN DropDuplicates(d) ELSE d

\* The value of the local df after each step of transform()
AfterDrop(raw) == StepDrop(raw)
\* Steps 2.2 to 2.4 on the filled table; the column roles are those of lines 59-61
FlagsFrom(raw, filled) ==
    StepFlags(StepFeatures(StepDates(filled, DateCols(raw)), DateCols(raw)),
              StatusCols(raw))
TransformResult(raw) == StepDedup(FlagsFrom(raw, StepFill(AfterDrop(raw))))

(***************************************************************************)
(* The tables the model is run on: a header and up to a bounded number of  *)
(* rows, each cell drawn from the values listed for its column.            *)
(***************************************************************************)
ColSpec(name, vals) == [name |-> name, vals |-> vals]

Schemas ==
    << << ColSpec(Order_ID, {NaN, Str(A1)}),
          ColSpec(Status, {NaN, Str(DeliveredOnTime), Str(DeliveredLate), Str(Delayed)}) >>,
       << ColSpec(Order_ID, {NaN, Str(A1)}),
          ColSpec(Order_Date, {NaN, Str(d20240315), Str(d20231231), Str(soon)}) >>,
       << ColSpec(Agent_Age, {NaN, Whole(30), Whole(41)}),
          ColSpec(Order_ID, {NaN, Str(A1)}) >>,
       << ColSpec(Order_ID, {NaN, Str(A1)}),
          ColSpec(Agent_ID, {NaN, Str(A2)}) >>,
       << ColSpec(paid_date, {NaN, Str(d20240315), Str(soon)}) >>,
       << ColSpec(Agent_Age, {NaN, Whole(30)}),
          ColSpec(Status, {NaN, Str(Delayed)}) >> >>

Header(S) == [i \in 1..Len(S) |-> S[i].name]
RowsOf(S) ==
    {row \in [1..Len(S) -> UNION {S[i].vals : i \in 1..Len(S)}] :
        \A i \in 1..Len(S) : row[i] \in S[i].vals}
Files(max) ==
    UNION {{[header |-> Header(Schemas[j]), lines |-> lines] :
                lines \in UNION {[1..k -> RowsOf(Schemas[j])] : k \in 0..max}} :
           j \in 1..Len(Schemas)}

\* A processed dataset left by an earlier run
OldFile == [header |-> <<Order_ID>>, lines |-> << <<Str(A2)>> >>]

\* DataFrame.to_csv(index=False): a header row of column names and the rows
ToCsv(d) == [header |-> d.cols, lines |-> d.rows]

(***************************************************************************)
(* The call chains: run() and the test's extract().transform().validate()  *)
(* .load().                                                                *)
(***************************************************************************)
Raise(e) == pc' = "aborted" /\ error' = e

\* run(): banner and start time
RunStart ==
    /\ entry = "run" /\ pc = "start"
    /\ pc' = "extract"
    /\ UNCHANGED <<entry, load_db, sqlalchemy, rawFile, outFile, raw_df, clean_df, df,
                   again, conn, db, error>>

\* test_etl_creates_output: assert RAW_DATASET.exists()
TestAssert ==
    /\ entry = "test" /\ pc = "start"
    /\ IF rawFile = None THEN Raise("AssertionError")
       ELSE pc' = "extract" /\ UNCHANGED error
    /\ UNCHANGED <<entry, load_db, sqlalchemy, rawFile, outFile, raw_df, clean_df, df,
                   again, conn, db>>

\* A variant of Extract without the RAW_DATASET.exists() check: a missing file reads
\* as a table with no column and no row
ExtractUnchecked ==
    /\ pc = "extract"
    /\ raw_df' = (IF rawFile = None THEN [cols |-> <<>>, dtypes |-> <<>>, rows |-> <<>>]
                  ELSE ReadCsv(rawFile))
    /\ pc' = "transform"
    /\ UNCHANGED <<entry, load_db, sqlalchemy, rawFile, outFile, clean_df, df, again,
                   conn, db, error>>

Extract ==
    /\ pc = "extract"
    /\ IF rawFile = None
       THEN Raise("FileNotFoundError") /\ UNCHANGED raw_df
       ELSE raw_df' = ReadCsv(rawFile) /\ pc' = "transform" /\ UNCHANGED error
    /\ UNCHANGED <<entry, load_db, sqlalchemy, rawFile, outFile, clean_df, df, again,
                   conn, db>>

Transform ==
    /\ pc = "transform"
    /\ LET dropped == AfterDrop(raw_df)
           filled == StepFill(dropped)
           flagged == FlagsFrom(raw_df, filled)
       IN  /\ df' = [dropped |-> dropped, filled |-> filled, flagged |-> flagged]
           /\ clean_df' = StepDedup(flagged)
    /\ pc' = "validate"
    /\ UNCHANGED <<entry, load_db, sqlalchemy, rawFile, outFile, raw_df, again, conn, db,
                   error>>

\* validate(): nunique() / float(len(df)) divides by zero on a table with no row
ValidateRaises(d) == Len(IdCols(d)) > 0 /\ NRows(d) = 0

Validate ==
    /\ pc = "validate"
    /\ IF ValidateRaises(clean_df) THEN Raise("ZeroDivisionError")
       ELSE pc' = (IF entry = "test" THEN "load" ELSE "load_to_csv") /\ UNCHANGED error
    /\ UNCHANGED <<entry, load_db, sqlalchemy, rawFile, outFile, raw_df, clean_df, df,
                   again, conn, db>>

\* The test calls .load(); DeliveryETL defines load_to_csv and load_to_database only
TestLoad ==
    /\ pc = "load"
    /\ Raise("AttributeError")
    /\ UNCHANGED <<entry, load_db, sqlalchemy, rawFile, outFile, raw_df, clean_df, df,
                   again, conn, db>>

\* load_to_csv(): the write succeeds, or fails before the file is opened (the file is
\* as it was) or while it is written (the file holds the header and some of the rows)
LoadToCsv ==
    /\ pc = "load_to_csv"
    /\ \/ /\ outFile' = ToCsv(clean_df)
          /\ pc' = (IF load_db THEN "load_to_database" ELSE "report")
          /\ UNCHANGED error
       \/ /\ outFile' \in {outFile} \cup
                {[header |-> clean_df.cols, lines |-> SubSeq(clean_df.rows, 1, k)] :
                    k \in 0..(NRows(clean_df) - 1)}
          /\ Raise("OSError")
    /\ UNCHANGED <<entry, load_db, sqlalchemy, rawFile, raw_df, clean_df, df, again,
                   conn, db>>

\* The points of load_to_database()'s try block at which an exception can be raised
DbFailPoints == {"import", "connect", "drop", "create", "insert", "commit", "verify"}

\* The connection when the try block is left by an exception raised at `at`:
\* conn.close() is the last statement of the try block and is not reached
ConnAfterFailure(at) == IF at \in {"import", "connect"} THEN "none" ELSE "open"

\* The deliveries table when the try block is left at `at`, the k-th insert being the
\* failing one: DROP and CREATE are committed one by one, the inserts in one commit
DbAfter(at, k, n) ==
    CASE at \in {"import", "connect", "drop"} -> db
      [] at = "create" -> [table |-> "absent", rows |-> 0, pending |-> 0]
      [] at = "insert" -> [table |-> "fresh", rows |-> 0, pending |-> k - 1]
      [] at = "commit" -> [table |-> "fresh", rows |-> 0, pending |-> n]
      [] OTHER -> [table |-> "fresh", rows |-> n, pending |-> 0]

\* A variant of DbCaught with no except clause: the exception leaves load_to_database()
DbUncaught(e) == Raise("DatabaseError")

\* except Exception as e: print, traceback.print_exc(); then return self
DbCaught(e) == pc' = "report" /\ UNCHANGED error

LoadToDatabase ==
    /\ pc = "load_to_database"
    /\ \/ /\ ~sqlalchemy
          /\ pc' = "report"
          /\ UNCHANGED <<conn, db, error>>
       \/ /\ sqlalchemy
          /\ \E at \in DbFailPoints :
                \E k \in (IF at = "insert" THEN 1..NRows(clean_df) ELSE {0}) :
                    /\ conn' = ConnAfterFailure(at)
                    /\ db' = DbAfter(at, k, NRows(clean_df))
                    /\ DbCaught(at)
       \/ /\ sqlalchemy
          /\ conn' = "closed"
          /\ db' = DbAfter("done", 0, NRows(clean_df))
          /\ pc' = "report"
          /\ UNCHANGED error
    /\ UNCHANGED <<entry, load_db, sqlalchemy, rawFile, outFile, raw_df, clean_df, df,
                   again>>

\* run(): the completion report
Report ==
    /\ pc = "report"
    /\ pc' = "done"
    /\ UNCHANGED <<entry, load_db, sqlalchemy, rawFile, outFile, raw_df, clean_df, df,
                   again, conn, db, error>>

\* transform() applied to the cleaned table of a previous transform()
Retransform ==
    /\ entry = "refeed" /\ pc = "validate"
    /\ again' = TransformResult(clean_df)
    /\ pc' = "refed"
    /\ UNCHANGED <<entry, load_db, sqlalchemy, rawFile, outFile, raw_df, clean_df, df,
                   conn, db, error>>

\* DeliveryETL.__init__ and the state of the file system and the database
Init ==
    /\ entry \in {"run", "test"}
    /\ load_db \in (IF entry = "run" THEN BOOLEAN ELSE {FALSE})
    /\ sqlalchemy \in BOOLEAN
    /\ rawFile \in {None} \cup Files(MaxRunRows)
    /\ outFile \in {None, OldFile}
    /\ raw_df = None /\ clean_df = None /\ df = None /\ again = None
    /\ conn = "none"
    /\ db = [table |-> "old", rows |-> 1, pending |-> 0]
    /\ pc = "start"
    /\ error = NoError

Next ==
    \/ RunStart \/ TestAssert \/ Extract \/ Transform \/ Validate \/ TestLoad
    \/ LoadToCsv \/ LoadToDatabase \/ Report

Spec == Init /\ [][Next]_vars

\* transform() as a function of the raw table: the state after extract() of a table
\* of up to MaxRows rows, then transform() and transform() again on its output
InitT ==
    /\ entry = "refeed"
    /\ load_db = FALSE
    /\ sqlalchemy = FALSE
    /\ rawFile \in Files(MaxRows)
    /\ outFile = None
    /\ raw_df = ReadCsv(rawFile)
    /\ clean_df = None /\ df = None /\ again = None
    /\ conn = "none"
    /\ db = [table |-> "old", rows |-> 1, pending |-> 0]
    /\ pc = "transform"
    /\ error = NoError

NextT == Transform \/ Retransform

SpecT == InitT /\ [][NextT]_vars

(***************************************************************************)
(* Properties.                                                             *)
(***************************************************************************)
Transformed == clean_df # None
FirstIdCol(d) == ColIndex(d, IdCols(raw_df)[1])
FirstStatusCol(d) == ColIndex(d, StatusCols(raw_df)[1])

\* C1: after transform() no cell of the cleaned table, in any column, is missing.
C1_NoMissingAfterTransform ==
    Transformed => TotalMissing(clean_df) = 0

\* C2: validate() returns normally (the caller goes on to its next call) and leaves
\* clean_df as it was, for every cleaned table transform() can produce.
C2_ValidateNeverHalts ==
    [][pc = "validate" /\ entry \in {"run", "test"}
         => pc' \in {"load", "load_to_csv"} /\ error' = NoError /\ clean_df' = clean_df]_vars

\* C3: the database stage returns normally to run()'s completion report on every
\* path (driver missing, or a failure at any point), leaving the written output file
\* and the cleaned table unchanged; the report then completes run().
C3_DbStageNeverFatal ==
    [][/\ pc = "load_to_database"
            => /\ pc' = "report" /\ error' = NoError
               /\ outFile' = outFile /\ clean_df' = clean_df
       /\ pc = "report" => pc' = "done" /\ error' = NoError /\ outFile' = outFile]_vars

\* C3 witness: run() has completed after a database failure that followed the connection,
\* and the output file still holds the cleaned table.
C3_Witness ==
    /\ pc = "done" /\ error = NoError /\ load_db /\ sqlalchemy
    /\ conn = "open" /\ db.pending = 1
    /\ outFile = ToCsv(clean_df) /\ NRows(clean_df) = 2

\* C4: transform() applied to the cleaned table of a previous transform() yields the
\* same columns, the same rows and the same cell values.
C4_TransformIdempotent ==
    again # None => again.cols = clean_df.cols /\ again.rows = clean_df.rows

\* C5: when the raw input file does not exist, no step sets raw_df or clean_df or
\* changes the output file, no stage after extract() runs, and extract() raises
\* FileNotFoundError.
C5_MissingSourceAborts ==
    [][rawFile = None
         => /\ raw_df' = None /\ clean_df' = None /\ outFile' = outFile
            /\ conn' = "none" /\ db' = db
            /\ pc' \in {"extract", "aborted"}
            /\ pc = "extract" => pc' = "aborted" /\ error' = "FileNotFoundError"]_vars

\* C5 witness: run() aborted by extract() with the earlier output file as it was.
C5_Witness ==
    /\ entry = "run" /\ rawFile = None
    /\ pc = "aborted" /\ error = "FileNotFoundError"
    /\ outFile = OldFile /\ raw_df = None /\ clean_df = None

\* C6: when the raw file exists, the test's chain extract().transform().validate()
\* .load() raises no error, and once it has completed the processed file holds the
\* rows of the cleaned table.
C6_TestChainCompletes ==
    entry = "test" /\ rawFile # None
        => /\ error = NoError
           /\ pc \notin {"start", "extract", "transform", "validate", "load"}
                => outFile # None /\ outFile.lines = clean_df.rows

\* C7: the cleaned table has no two equal rows, and it is made of the first row of
\* each group of equal rows of the table before deduplication, in their order.
FirstOccurrences(rows) == {r \in 1..Len(rows) : \A q \in 1..(r - 1) : rows[q] # rows[r]}
NthOf(S, i) == CHOOSE r \in S : Cardinality({q \in S : q <= r}) = i
C7_NoDuplicatesKeepFirst ==
    Transformed =>
        LET pre == df.flagged.rows
            out == clean_df.rows
        IN  /\ \A a, b \in 1..Len(out) : a # b => out[a] # out[b]
            /\ Len(out) = Cardinality(FirstOccurrences(pre))
            /\ \A i \in 1..Len(out) : out[i] = pre[NthOf(FirstOccurrences(pre), i)]

\* C7 witness: a later copy of the first row was removed and a different row, which
\* stood between the two, was kept after it.
C7_Witness ==
    /\ Transformed
    /\ Len(df.flagged.rows) = 3 /\ Len(clean_df.rows) = 2
    /\ df.flagged.rows[1] = df.flagged.rows[3]
    /\ df.flagged.rows[1] # df.flagged.rows[2]

\* C8: rows with a missing value in the first identifier-like column are dropped
\* before the fill (so the medians are those of the remaining rows), no row of the
\* cleaned table has a missing value in that column, and without an identifier-like
\* column no row is dropped.
C8_MissingIdRowsDropped ==
    Transformed =>
        IF Len(IdCols(raw_df)) > 0
        THEN /\ df.dropped.rows =
                    SelectSeq(raw_df.rows, LAMBDA row : ~IsNull(row[FirstIdCol(raw_df)]))
             /\ \A i \in 1..NCols(raw_df) : \A r \in 1..NRows(df.dropped) :
                    IsNumericDtype(raw_df.dtypes[i]) /\ IsNull(df.dropped.rows[r][i])
                        => df.filled.rows[r][i] = Median(Column(df.dropped, i))
             /\ \A r \in 1..NRows(clean_df) : ~IsNull(clean_df.rows[r][FirstIdCol(clean_df)])
        ELSE df.dropped.rows = raw_df.rows

\* C9: with a status-like column, in every row of the cleaned table the three flags
\* are 0 or 1 and is_on_time = 1 exactly when is_delivered = 1 and is_late = 0; a
\* status text matching a delivered keyword and a late keyword has is_on_time = 0.
C9_FlagsConsistent ==
    Transformed /\ Len(StatusCols(raw_df)) > 0 =>
        \A r \in 1..NRows(clean_df) :
            LET row == clean_df.rows[r]
                delivered == row[ColIndex(clean_df, is_delivered)]
                late == row[ColIndex(clean_df, is_late)]
                on_time == row[ColIndex(clean_df, is_on_time)]
                text == Lower(AsStr(row[FirstStatusCol(clean_df)],
                                    clean_df.dtypes[FirstStatusCol(clean_df)]))
            IN  /\ {delivered, late, on_time} \subseteq {Whole(0), Whole(1)}
                /\ on_time = Whole(1) <=> (delivered = Whole(1) /\ late = Whole(0))
                /\ (\E kd \in {kw_delivered, kw_completed, kw_success, kw_delivered_on_time} :
                    \E kl \in {kw_late, kw_delay} : Contains(text, kd) /\ Contains(text, kl))
                        => on_time = Whole(0)

\* C9 witness: a cleaned row whose status matches both keyword sets.
C9_Witness ==
    /\ Transformed /\ Len(StatusCols(raw_df)) > 0
    /\ \E r \in 1..NRows(clean_df) :
          /\ clean_df.rows[r][FirstStatusCol(clean_df)] = Str(DeliveredLate)
          /\ clean_df.rows[r][ColIndex(clean_df, is_delivered)] = Whole(1)
          /\ clean_df.rows[r][ColIndex(clean_df, is_late)] = Whole(1)
          /\ clean_df.rows[r][ColIndex(clean_df, is_on_time)] = Whole(0)

\* C10: once load_to_database() has returned, a connection it opened is closed.
C10_ConnectionClosed ==
    pc \in {"report", "done"} => conn # "open"
====
